---------------------------- MODULE Spec2Model ----------------------------
(***************************************************************************)
(* Update-checker (main.py): reads urls.txt, fetches every URL once, looks *)
(* for a "last updated" date (meta tags, labelled text, Last-Modified      *)
(* header) and writes one CSV row per URL.                                 *)
(*                                                                         *)
(* Four specifications share the module:                                   *)
(*   Spec       main(): urls.txt -> read_urls -> check_url per URL -> CSV  *)
(*   SpecDate   safe_parse_date applied to a raw string, then to its own   *)
(*              output                                                     *)
(*   SpecMeta   find_meta_date applied to a document's meta tags           *)
(*   SpecLabel  find_date_near_label applied to a text                     *)
(*                                                                         *)
(* Representation of Python values:                                        *)
(*   - a string that holds date text is a record (fmt, a, b, c, hh, zoned, *)
(*     off, pad): its layout and its numeric tokens in written order;      *)
(*     the empty string is EmptyStr, Python's None is None;                *)
(*   - found_where is the sequence of the pieces of the f-string, "" is    *)
(*     <<>>;                                                               *)
(*   - status, title and exception class names are TLA+ strings.           *)
(***************************************************************************)
EXTENDS Integers, Sequences, FiniteSets, TLC

VARIABLES
    pc,         \* main(): position in the function body
    file,       \* urls.txt: whether it exists, and its lines
    urls,       \* main(): the list read_urls returned
    rows,       \* main(): the rows check_url has returned so far
    pages,      \* the answer the network gave to each GET issued so far
    outDir,     \* whether os.makedirs("output") has run
    report,     \* output/update_report.csv: whether written, and its rows
    exitMsg,    \* the SystemExit message, "" while none was raised
    pcDate,     \* SpecDate: how many times safe_parse_date was applied
    rawIn,      \* SpecDate: the raw string
    iso1,       \* SpecDate: safe_parse_date(rawIn)
    iso2,       \* SpecDate: safe_parse_date(iso1)
    pcMeta,     \* SpecMeta: whether find_meta_date has run
    soupDoc,    \* SpecMeta: the document's meta tags, in document order
    metaRes,    \* SpecMeta: what find_meta_date returned
    pcLabel,    \* SpecLabel: whether find_date_near_label has run
    textIn,     \* SpecLabel: the text handed to find_date_near_label
    labelRes    \* SpecLabel: what find_date_near_label returned

vars == <<pc, file, urls, rows, pages, outDir, report, exitMsg,
          pcDate, rawIn, iso1, iso2, pcMeta, soupDoc, metaRes,
          pcLabel, textIn, labelRes>>

mainVars  == <<pc, file, urls, rows, pages, outDir, report, exitMsg>>
dateVars  == <<pcDate, rawIn, iso1, iso2>>
metaVars  == <<pcMeta, soupDoc, metaRes>>
labelVars == <<pcLabel, textIn, labelRes>>

(***************************************************************************)
(* Bounds of the model.                                                    *)
(***************************************************************************)
MaxLines == 2      \* lines in urls.txt
MaxTags  == 3      \* meta tags in a document
MaxWords == 6      \* words in a text

(***************************************************************************)
(* Date strings.                                                           *)
(***************************************************************************)
RawStr(fmt, a, b, c, hh, zoned, off, pad) ==
    [fmt |-> fmt, a |-> a, b |-> b, c |-> c, hh |-> hh,
     zoned |-> zoned, off |-> off, pad |-> pad]

\* Python's None
None == RawStr("none", 0, 0, 0, 0, FALSE, 0, FALSE)
\* ""
EmptyStr == RawStr("empty", 0, 0, 0, 0, FALSE, 0, FALSE)
\* whitespace only
BlankStr == RawStr("empty", 0, 0, 0, 0, FALSE, 0, TRUE)
\* text without any date in it ("not a date")
JunkStr == RawStr("junk", 0, 0, 0, 0, FALSE, 0, FALSE)

\* "2024-01-15", "2024-01-15T10:00:00+02:00": year, then two numbers
YmdStr(y, n2, n3, hh, zoned, off) == RawStr("ymd", y, n2, n3, hh, zoned, off, FALSE)
\* "15/01/2024": two numbers, then the year
DmyStr(n1, n2, y) == RawStr("dmy", n1, n2, y, 0, FALSE, 0, FALSE)
\* "2 January 2024": day, month by name, year
DMonYStr(d, m, y) == RawStr("dMy", d, m, y, 0, FALSE, 0, FALSE)
\* "15": a lone day number
DayStr(d) == RawStr("d", d, 0, 0, 0, FALSE, 0, FALSE)

\* datetime.now(): dateutil's default for the fields a string does not give
Today == [year |-> 2026, month |-> 11, day |-> 4]

\* str.strip()
Strip(raw) == [raw EXCEPT !.pad = FALSE]

IsLeap(y) == (y % 4 = 0 /\ y % 100 # 0) \/ y % 400 = 0

DaysInMonth(y, m) ==
    IF m = 2 THEN (IF IsLeap(y) THEN 29 ELSE 28)
    ELSE IF m \in {4, 6, 9, 11} THEN 30 ELSE 31

\* dateutil _ymd.resolve_ymd for three numbers without a month name,
\* yearfirst = False. ystr: the position (1-based) of the 4-digit token, 0
\* if none.
ResolveYmd(l, ystr, dayfirst) ==
    IF l[1] > 31 \/ ystr = 1
    THEN IF dayfirst /\ l[3] <= 12
         THEN [year |-> l[1], day |-> l[2], month |-> l[3]]
         ELSE [year |-> l[1], month |-> l[2], day |-> l[3]]
    ELSE IF l[1] > 12 \/ (dayfirst /\ l[2] <= 12)
         THEN [day |-> l[1], month |-> l[2], year |-> l[3]]
         ELSE [month |-> l[1], day |-> l[2], year |-> l[3]]

\* The year, month and day dateparser.parse(raw, dayfirst=True, fuzzy=True)
\* reads out of the string.
ParsedYmd(raw) ==
    CASE raw.fmt = "ymd" -> ResolveYmd(<<raw.a, raw.b, raw.c>>, 1, TRUE)
      [] raw.fmt = "dmy" -> ResolveYmd(<<raw.a, raw.b, raw.c>>, 3, TRUE)
      [] raw.fmt = "dMy" -> [day |-> raw.a, month |-> raw.b, year |-> raw.c]
      [] raw.fmt = "d"   -> [day |-> raw.a, month |-> Today.month, year |-> Today.year]
      [] OTHER           -> [day |-> 0, month |-> 0, year |-> 0]

\* datetime's own range check: parse raises ValueError outside it.
ValidDate(d) ==
    /\ d.month \in 1..12
    /\ d.day >= 1
    /\ d.day <= DaysInMonth(d.year, d.month)

\* dateparser.parse: a datetime, or ParseError when it raises.
ParseError == [ok |-> FALSE, year |-> 0, month |-> 0, day |-> 0, hour |-> 0,
               zoned |-> FALSE, off |-> 0]

DateutilParse(raw) ==
    IF raw.fmt \notin {"ymd", "dmy", "dMy", "d"} THEN ParseError
    ELSE LET d == ParsedYmd(raw)
         IN IF ValidDate(d)
            THEN [ok |-> TRUE, year |-> d.year, month |-> d.month, day |-> d.day,
                  hour |-> raw.hh, zoned |-> raw.zoned, off |-> raw.off]
            ELSE ParseError

PrevDay(d) ==
    IF d.day > 1 THEN [d EXCEPT !.day = d.day - 1]
    ELSE IF d.month > 1
         THEN [d EXCEPT !.month = d.month - 1,
                        !.day = DaysInMonth(d.year, d.month - 1)]
         ELSE [d EXCEPT !.year = d.year - 1, !.month = 12, !.day = 31]

NextDay(d) ==
    IF d.day < DaysInMonth(d.year, d.month) THEN [d EXCEPT !.day = d.day + 1]
    ELSE IF d.month < 12
         THEN [d EXCEPT !.month = d.month + 1, !.day = 1]
         ELSE [d EXCEPT !.year = d.year + 1, !.month = 1, !.day = 1]

\* dt.replace(tzinfo=utc) for a naive datetime, then dt.astimezone(utc):
\* the offset is subtracted; offsets are whole hours.
AsUtc(dt) ==
    LET off == IF dt.zoned THEN dt.off ELSE 0
        h   == dt.hour - off
        day == IF h < 0 THEN PrevDay(dt) ELSE IF h >= 24 THEN NextDay(dt) ELSE dt
    IN [day EXCEPT !.hour = (h + 24) % 24, !.zoned = TRUE, !.off = 0]

\* datetime.isoformat(): "YYYY-MM-DDTHH:00:00+00:00"
IsoFormat(dt) == YmdStr(dt.year, dt.month, dt.day, dt.hour, TRUE, dt.off)

safe_parse_date(raw0) ==
    LET raw == Strip(raw0)
    IN IF raw.fmt \in {"empty", "none"} THEN None
       ELSE LET dt == DateutilParse(raw)
            IN IF ~dt.ok THEN None
               ELSE IsoFormat(AsUtc(dt))

\* `x or ""`
OrEmpty(x) == IF x = None THEN EmptyStr ELSE x


(***************************************************************************)
(* find_meta_date.  A document is the sequence of its meta tags in         *)
(* document order; a tag is [attr, key, content]: the attribute that names *)
(* it (property / name / itemprop), that attribute's value, and the value  *)
(* of its content attribute (None when the tag has none).                  *)
(***************************************************************************)
META_KEYS ==
    << <<"property", "article:modified_time">>,
       <<"property", "og:updated_time">>,
       <<"name", "last-modified">>,
       <<"name", "dateModified">>,
       <<"itemprop", "dateModified">>,
       <<"name", "date">>,
       <<"property", "article:published_time">>,
       <<"itemprop", "datePublished">> >>

MetaTag(attr, key, content) == [attr |-> attr, key |-> key, content |-> content]

NoTag == MetaTag("", "", None)

TagMatches(tag, attr, key) == tag.attr = attr /\ tag.key = key

RECURSIVE SoupFindLast(_, _, _)
\* a find that returns the last matching tag instead of the first
SoupFindLast(doc, attr, key) ==
    IF doc = <<>> THEN NoTag
    ELSE IF TagMatches(doc[Len(doc)], attr, key) THEN doc[Len(doc)]
         ELSE SoupFindLast(SubSeq(doc, 1, Len(doc) - 1), attr, key)

RECURSIVE SoupFind(_, _, _)
\* soup.find("meta", attrs={attr: key}): the first matching tag in document
\* order, NoTag (Python's None) when there is none.
SoupFind(doc, attr, key) ==
    IF doc = <<>> THEN NoTag
    ELSE IF TagMatches(Head(doc), attr, key) THEN Head(doc)
         ELSE SoupFind(Tail(doc), attr, key)

\* Python truthiness of a string-or-None
Truthy(str) == str # None /\ str # EmptyStr

\* Optional[Tuple[str, str]]: None is NoResult, a result is <<iso, where>>
NoResult == <<>>

RECURSIVE FindMetaFrom(_, _)
\* the for loop of find_meta_date from META_KEYS[i] on
FindMetaFrom(doc, i) ==
    IF i > Len(META_KEYS) THEN NoResult
    ELSE LET attr == META_KEYS[i][1]
             key  == META_KEYS[i][2]
             tag  == SoupFind(doc, attr, key)
             iso  == safe_parse_date(tag.content)
         IN IF tag # NoTag /\ Truthy(tag.content) /\ iso # None
            THEN <<iso, <<"meta:", attr, "=", key>> >>
            ELSE FindMetaFrom(doc, i + 1)

find_meta_date(doc) == FindMetaFrom(doc, 1)

(***************************************************************************)
(* find_date_near_label.  A text is a sequence of words separated by       *)
(* whitespace; WsRun is an additional run of whitespace (newlines, several *)
(* blanks).  After re.sub(r"\s+", " ", text).strip() the words are joined  *)
(* by single blanks, so a character position is a word index plus the      *)
(* widths of the words before it.                                          *)
(***************************************************************************)
WsRun    == "\n\n"
DateWord == "15/01/2024"
EnDash   == "<en dash>"
LongWord == "x{75}"          \* a word of 75 characters without a date

\* len(word)
Width(w) ==
    CASE w = "Last"    -> 4
      [] w = "updated" -> 7
      [] w = "on"      -> 2
      [] w = ":"       -> 1
      [] w = DateWord  -> 10
      [] w = LongWord  -> 75
      [] OTHER         -> 0

\* str.lower(), as re.IGNORECASE compares
Lower(w) == IF w = "Last" THEN "last" ELSE w

\* Each pattern is <first word>\s+<second word>; update(?:d)? allows two
\* first words.  (The u-umlaut of the second pattern is written u.)
LABEL_PATTERNS ==
    << [first |-> {"laatst"},            second |-> "bijgewerkt"],
       [first |-> {"laatst"},            second |-> "geupdatet"],
       [first |-> {"bijgewerkt"},        second |-> "op"],
       [first |-> {"update", "updated"}, second |-> "on"],
       [first |-> {"last"},              second |-> "updated"],
       [first |-> {"last"},              second |-> "modified"],
       [first |-> {"gepubliceerd"},      second |-> "op"],
       [first |-> {"published"},         second |-> "on"] >>

\* the window size in the regular expression, (.{0,80})
WINDOW == 80

\* t = re.sub(r"\s+", " ", text, flags=re.MULTILINE).strip()
CollapseWs(text) == SelectSeq(text, LAMBDA w : w # WsRun)

\* ({pat}) matches at word i of t
LabelAt(t, pat, i) ==
    /\ i + 1 <= Len(t)
    /\ Lower(t[i]) \in pat.first
    /\ Lower(t[i + 1]) = pat.second

RECURSIVE ReSearchFrom(_, _, _)
\* re.search scans the start positions left to right; the rest of the
\* expression, [:\s\-<en dash>]*(.{0,80}), matches wherever the label does. 0: no
\* match.
ReSearchFrom(t, pat, i) ==
    IF i > Len(t) THEN 0
    ELSE IF LabelAt(t, pat, i) THEN i
         ELSE ReSearchFrom(t, pat, i + 1)

RECURSIVE ReSearchLastFrom(_, _, _)
ReSearchLastFrom(t, pat, i) ==
    IF i < 1 THEN 0
    ELSE IF LabelAt(t, pat, i) THEN i
         ELSE ReSearchLastFrom(t, pat, i - 1)

\* a search that returns the last occurrence instead of the first
re_search_last(t, pat) == ReSearchLastFrom(t, pat, Len(t))

\* re.search(pattern, t, flags=re.IGNORECASE): the word index at which the
\* leftmost match starts, 0 for no match
re_search(t, pat) == ReSearchFrom(t, pat, 1)

RECURSIVE SkipSeparators(_, _)
\* [:\s\-<en dash>]* is greedy: the index of the first word after the label that is
\* not a separator (Len(t) + 1 when none is left)
SkipSeparators(t, i) ==
    IF i > Len(t) THEN i
    ELSE IF t[i] \in {":", "-", EnDash} THEN SkipSeparators(t, i + 1)
         ELSE i

RECURSIVE TakeChars(_, _, _)
\* (.{0,n}) from word i on: the words it covers, each with the number of its
\* characters inside the window
TakeChars(t, i, n) ==
    IF i > Len(t) \/ n <= 0 THEN <<>>
    ELSE LET k == IF Width(t[i]) <= n THEN Width(t[i]) ELSE n
         IN <<[word |-> t[i], kept |-> k]>> \o TakeChars(t, i + 1, n - Width(t[i]) - 1)

\* m.group(2)
WindowAfter(t, i) == TakeChars(t, SkipSeparators(t, i + 2), WINDOW)

\* What dateutil finds in a prefix of DateWord of k characters: "1", "15",
\* "15/" are a day; "15/01" a day and a month; "15/01/2", "15/01/20",
\* "15/01/202" a date with the year cut; "15/0" and "15/01/" are rejected.
CutDate(k) ==
    CASE k = 1        -> DayStr(1)
      [] k \in {2, 3} -> DayStr(15)
      [] k = 5        -> DMonYStr(15, 1, Today.year)
      [] k = 7        -> DmyStr(15, 1, 2002)
      [] k = 8        -> DmyStr(15, 1, 2020)
      [] k = 9        -> DmyStr(15, 1, 202)
      [] k = 10       -> DmyStr(15, 1, 2024)
      [] OTHER        -> JunkStr

\* The window as the fuzzy parser sees it: words that hold no date are
\* skipped, one date is read, two dates make the parser raise.
WindowText(win) ==
    LET dates == SelectSeq(win, LAMBDA p : p.word = DateWord)
    IN IF win = <<>> THEN EmptyStr
       ELSE IF Len(dates) = 1 THEN CutDate(dates[1].kept)
       ELSE JunkStr

RECURSIVE FindLabelFrom(_, _)
\* the for loop of find_date_near_label from LABEL_PATTERNS[p] on
FindLabelFrom(t, p) ==
    IF p > Len(LABEL_PATTERNS) THEN NoResult
    ELSE LET m   == re_search(t, LABEL_PATTERNS[p])
             iso == safe_parse_date(WindowText(WindowAfter(t, m)))
         IN IF m # 0 /\ iso # None
            THEN <<iso, <<"text_label:", t[m], t[m + 1]>> >>
            ELSE FindLabelFrom(t, p + 1)

find_date_near_label(text) == FindLabelFrom(CollapseWs(text), 1)

(***************************************************************************)
(* check_url.  A page is what the network answers to one GET:              *)
(*   kind   "raise" (requests.get raised exc) or "response"                *)
(*   exc    the class of the exception raised                              *)
(*   code   resp.status_code                                               *)
(*   lm     the Last-Modified header, EmptyStr when absent                 *)
(*   html   resp.text: [title, h1, metas, text]                            *)
(*   failAt where, after the GET, the HTML library raises on this body:    *)
(*          "none", "soup" (BeautifulSoup(html, ...) or get_title, lines   *)
(*          122-123) or "text" (soup.get_text, line 132)                   *)
(***************************************************************************)
Html(title, h1, metas, text) ==
    [title |-> title, h1 |-> h1, metas |-> metas, text |-> text]

RaisePage(exc) ==
    [kind |-> "raise", exc |-> exc, code |-> 0, lm |-> EmptyStr,
     html |-> Html("", "", <<>>, <<>>), failAt |-> "none"]

ResponsePage(code, lm, html, failAt) ==
    [kind |-> "response", exc |-> "", code |-> code, lm |-> lm,
     html |-> html, failAt |-> failAt]

\* the subclasses of requests.exceptions.Timeout
TimeoutClasses == {"Timeout", "ConnectTimeout", "ReadTimeout"}

\* the class of the exception the HTML library raises at failAt
LibraryException(failAt) ==
    IF failAt = "soup" THEN "ParserRejectedMarkup" ELSE "RecursionError"

\* hashlib.sha256(html.encode(...)).hexdigest(): a digest that names its
\* input; never the empty string
hash_content(html) == <<"sha256", html>>

get_title(html) ==
    IF html.title # "" THEN html.title
    ELSE IF html.h1 # "" THEN html.h1
    ELSE ""

\* datetime.now(timezone.utc).isoformat()
NowUtc == "now"

\* the dict check_url starts from
InitialResult(url) ==
    [url |-> url, title |-> "", best_date_utc |-> EmptyStr, found_where |-> <<>>,
     http_last_modified |-> EmptyStr, status |-> "OK", content_hash |-> <<>>,
     checked_at_utc |-> NowUtc]

\* a handler that leaves the status as it was
OnExceptionKeepStatus(result, exc) == result

\* the two except clauses of check_url
OnException(result, exc) ==
    IF exc \in TimeoutClasses
    THEN [result EXCEPT !.status = "ERROR_TIMEOUT"]
    ELSE [result EXCEPT !.status = "ERROR_" \o exc]

\* a short-circuit that lets code 400 through
IsHttpErrorAbove400(code) == code > 400

\* if resp.status_code >= 400: return result
IsHttpError(code) == code >= 400

\* strategies tried header first
StrategiesHeaderFirst(result, html, failAt) ==
    LET meta == find_meta_date(html.metas)
        labeled == find_date_near_label(html.text)
    IN IF result.http_last_modified # EmptyStr
       THEN [result EXCEPT !.best_date_utc = result.http_last_modified,
                           !.found_where = <<"http_header:Last-Modified">>]
       ELSE IF meta # NoResult
       THEN [result EXCEPT !.best_date_utc = meta[1], !.found_where = meta[2]]
       ELSE IF failAt = "text" THEN OnException(result, LibraryException(failAt))
       ELSE IF labeled # NoResult
       THEN [result EXCEPT !.best_date_utc = labeled[1], !.found_where = labeled[2]]
       ELSE [result EXCEPT !.status = "OK_NO_DATE_FOUND"]

\* a header fallback that forgets found_where
StrategiesHeaderNoWhere(result, html, failAt) ==
    LET meta == find_meta_date(html.metas)
        labeled == find_date_near_label(html.text)
    IN IF meta # NoResult
       THEN [result EXCEPT !.best_date_utc = meta[1], !.found_where = meta[2]]
       ELSE IF failAt = "text" THEN OnException(result, LibraryException(failAt))
       ELSE IF labeled # NoResult
       THEN [result EXCEPT !.best_date_utc = labeled[1], !.found_where = labeled[2]]
       ELSE IF result.http_last_modified # EmptyStr
       THEN [result EXCEPT !.best_date_utc = result.http_last_modified]
       ELSE [result EXCEPT !.status = "OK_NO_DATE_FOUND"]

\* check_url from "1) Meta tags" to the end of the try block
Strategies(result, html, failAt) ==
    LET meta == find_meta_date(html.metas)
        \* text = soup.get_text(" ", strip=True)
        labeled == find_date_near_label(html.text)
    IN IF meta # NoResult
       THEN [result EXCEPT !.best_date_utc = meta[1], !.found_where = meta[2]]
       ELSE IF failAt = "text" THEN OnException(result, LibraryException(failAt))
       ELSE IF labeled # NoResult
       THEN [result EXCEPT !.best_date_utc = labeled[1], !.found_where = labeled[2]]
       ELSE IF result.http_last_modified # EmptyStr
       THEN [result EXCEPT !.best_date_utc = result.http_last_modified,
                           !.found_where = <<"http_header:Last-Modified">>]
       ELSE [result EXCEPT !.status = "OK_NO_DATE_FOUND"]

check_url(url, page) ==
    LET result == InitialResult(url)
    IN IF page.kind = "raise" THEN OnException(result, page.exc)
       ELSE LET r1 == [result EXCEPT !.status = "HTTP_" \o ToString(page.code)]
            IN IF IsHttpError(page.code) THEN r1
               ELSE LET r2 == [r1 EXCEPT !.content_hash = hash_content(page.html),
                                         !.http_last_modified =
                                             OrEmpty(safe_parse_date(page.lm))]
                    IN IF page.failAt = "soup"
                       THEN OnException(r2, LibraryException(page.failAt))
                       ELSE Strategies([r2 EXCEPT !.title = get_title(page.html)],
                                       page.html, page.failAt)

\* check_url lets only Timeout be caught
CheckUrlRaisesUnlessTimeout(page) ==
    page.kind = "raise" /\ page.exc \notin TimeoutClasses

\* Whether an exception leaves check_url: `except Exception` catches every
\* exception the try block raises, and nothing outside it raises.
CheckUrlRaises(page) == FALSE

(***************************************************************************)
(* read_urls.  A line is its characters without the line end, " " being    *)
(* any whitespace.                                                         *)
(***************************************************************************)
RECURSIVE LStrip(_)
LStrip(line) ==
    IF line # <<>> /\ Head(line) = " " THEN LStrip(Tail(line)) ELSE line

RECURSIVE RStrip(_)
RStrip(line) ==
    IF line # <<>> /\ line[Len(line)] = " "
    THEN RStrip(SubSeq(line, 1, Len(line) - 1))
    ELSE line

\* line.strip()
StripLine(line) == RStrip(LStrip(line))

RECURSIVE ReadUrlsKeepComments(_)
\* a read_urls that only skips blank lines
ReadUrlsKeepComments(lines) ==
    IF lines = <<>> THEN <<>>
    ELSE LET u == StripLine(Head(lines))
         IN (IF u # <<>> THEN <<u>> ELSE <<>>) \o ReadUrlsKeepComments(Tail(lines))

RECURSIVE read_urls(_)
read_urls(lines) ==
    IF lines = <<>> THEN <<>>
    ELSE LET u == StripLine(Head(lines))
         IN (IF u # <<>> /\ Head(u) # "#" THEN <<u>> ELSE <<>>)
            \o read_urls(Tail(lines))

Min(S) == CHOOSE x \in S : \A y \in S : x <= y

IdleMain ==
    /\ pc = "idle" /\ file = [exists |-> FALSE, lines |-> <<>>]
    /\ urls = <<>> /\ rows = <<>> /\ pages = <<>>
    /\ outDir = FALSE /\ report = [written |-> FALSE, rows |-> <<>>] /\ exitMsg = ""

IdleDate == pcDate = "idle" /\ rawIn = None /\ iso1 = None /\ iso2 = None

IdleMeta == pcMeta = "idle" /\ soupDoc = <<>> /\ metaRes = <<>>

IdleLabel == pcLabel = "idle" /\ textIn = <<>> /\ labelRes = <<>>

SeqsUpTo(S, n) == UNION {[1..k -> S] : k \in 0..n}

\* "2024-01-15" and "16/01/2024"
DateA == YmdStr(2024, 1, 15, 0, FALSE, 0)
DateB == DmyStr(16, 1, 2024)

(***************************************************************************)
(* Spec: main().                                                           *)
(***************************************************************************)
UrlsFile(exists, lines) == [exists |-> exists, lines |-> lines]

NoReport == [written |-> FALSE, rows |-> <<>>]

\* lines of urls.txt: empty, blank, comments (one indented), URLs (one with
\* a # inside, one with whitespace around it)
Lines ==
    { <<>>, <<" ">>, <<"#", "a">>, <<" ", "#">>,
      <<"a", "#">>, <<" ", "b", " ">> }

\* "Wed, 21 Oct 2015 07:00:00 GMT"
HttpDate == RawStr("dMy", 21, 10, 2015, 7, TRUE, 0, FALSE)

MetaGood == <<MetaTag("name", "author", JunkStr),
              MetaTag("property", "og:updated_time", DateA)>>
MetaBad  == <<MetaTag("name", "date", JunkStr)>>
TextGood == <<"Last", "updated", ":", DateWord>>
TextBad  == <<"Last", "updated", LongWord, DateWord>>

\* bodies and headers: every combination of the three strategies finding
\* or not finding a date (meta, text, header)
ContentNone       == <<Html("", "", MetaBad, TextBad), JunkStr>>
ContentHeader     == <<Html("", "Heading", <<>>, <<>>), HttpDate>>
ContentText       == <<Html("Title", "Heading", MetaBad, TextGood), JunkStr>>
ContentTextHeader == <<Html("Title", "", <<>>, TextGood), HttpDate>>
ContentMeta       == <<Html("Title", "", MetaGood, TextBad), EmptyStr>>
ContentMetaHeader == <<Html("Title", "", MetaGood, <<>>), HttpDate>>
ContentMetaText   == <<Html("", "Heading", MetaGood, TextGood), JunkStr>>
ContentAll        == <<Html("Title", "Heading", MetaGood, TextGood), HttpDate>>

Contents ==
    {ContentNone, ContentHeader, ContentText, ContentTextHeader,
     ContentMeta, ContentMetaHeader, ContentMetaText, ContentAll}

\* what the network may answer: an exception, an error code, a page; and
\* pages on which the HTML library raises
Pages ==
    {RaisePage("ReadTimeout"), RaisePage("ConnectionError")}
    \cup {ResponsePage(404, c[2], c[1], "none") :
             c \in {ContentNone, ContentHeader, ContentAll}}
    \cup {ResponsePage(400, ContentAll[2], ContentAll[1], "none")}
    \cup {ResponsePage(200, c[2], c[1], "none") : c \in Contents}
    \cup {ResponsePage(200, c[2], c[1], "soup") : c \in {ContentHeader, ContentAll}}
    \cup {ResponsePage(200, c[2], c[1], "text") :
             c \in {ContentNone, ContentTextHeader, ContentAll}}

Init ==
    /\ IdleDate /\ IdleMeta /\ IdleLabel
    /\ pc = "exists"
    /\ file \in {UrlsFile(FALSE, <<>>)}
                \cup {UrlsFile(TRUE, l) : l \in SeqsUpTo(Lines, MaxLines)}
    /\ urls = <<>>
    /\ rows = <<>>
    /\ pages = <<>>
    /\ outDir = FALSE
    /\ report = NoReport
    /\ exitMsg = ""

\* a main that goes on with an empty list
UrlsEmptyIgnored(u) == FALSE

\* if not urls: raise SystemExit("urls.txt is empty.")
UrlsEmpty(u) == u = <<>>

\* if not os.path.exists(urls_path): raise SystemExit(...)
MainExists ==
    /\ pc = "exists"
    /\ IF file.exists
       THEN pc' = "read" /\ UNCHANGED exitMsg
       ELSE pc' = "fatal" /\ exitMsg' = "Missing urls.txt (one URL per line)."
    /\ UNCHANGED <<file, urls, rows, pages, outDir, report>>
    /\ UNCHANGED <<dateVars, metaVars, labelVars>>

\* urls = read_urls(urls_path); if not urls: raise SystemExit(...)
MainReadUrls ==
    /\ pc = "read"
    /\ urls' = read_urls(file.lines)
    /\ IF UrlsEmpty(urls')
       THEN pc' = "fatal" /\ exitMsg' = "urls.txt is empty."
       ELSE pc' = "makedirs" /\ UNCHANGED exitMsg
    /\ UNCHANGED <<file, rows, pages, outDir, report>>
    /\ UNCHANGED <<dateVars, metaVars, labelVars>>

\* os.makedirs("output", exist_ok=True)
MainMakedirs ==
    /\ pc = "makedirs"
    /\ outDir' = TRUE
    /\ pc' = "rows"
    /\ UNCHANGED <<file, urls, rows, pages, report, exitMsg>>
    /\ UNCHANGED <<dateVars, metaVars, labelVars>>

\* one element of rows = [check_url(u) for u in urls]: the GET is issued,
\* the network answers with some page, check_url returns a row (or
\* raises, which ends main)
MainCheckUrl ==
    /\ pc = "rows"
    /\ Len(rows) < Len(urls)
    /\ \E page \in Pages :
          /\ pages' = Append(pages, page)
          /\ IF CheckUrlRaises(page)
             THEN pc' = "crashed" /\ UNCHANGED rows
             ELSE /\ rows' = Append(rows, check_url(urls[Len(rows) + 1], page))
                  /\ pc' = pc
    /\ UNCHANGED <<file, urls, outDir, report, exitMsg>>
    /\ UNCHANGED <<dateVars, metaVars, labelVars>>

\* the csv.DictWriter block and the final print
MainWriteReport ==
    /\ pc = "rows"
    /\ Len(rows) = Len(urls)
    /\ report' = [written |-> TRUE, rows |-> rows]
    /\ pc' = "done"
    /\ UNCHANGED <<file, urls, rows, pages, outDir, exitMsg>>
    /\ UNCHANGED <<dateVars, metaVars, labelVars>>

Next ==
    \/ MainExists
    \/ MainReadUrls
    \/ MainMakedirs
    \/ MainCheckUrl
    \/ MainWriteReport

Spec == Init /\ [][Next]_vars

(***************************************************************************)
(* Properties of main() and check_url (Spec).                              *)
(***************************************************************************)
\* the positions of the lines of urls.txt that hold a URL: some character
\* is not whitespace and the first such character is not "#"
UrlLineIdx(lines) ==
    {k \in 1..Len(lines) :
        /\ \E c \in 1..Len(lines[k]) : lines[k][c] # " "
        /\ lines[k][Min({c \in 1..Len(lines[k]) : lines[k][c] # " "})] # "#"}

\* the i-th smallest element of a set of numbers
Nth(I, i) == CHOOSE k \in I : Cardinality({j \in I : j <= k}) = i

\* a line without the whitespace around it
Trimmed(line) ==
    LET ink == {c \in 1..Len(line) : line[c] # " "}
    IN SubSeq(line, Min(ink), CHOOSE c \in ink : \A d \in ink : d <= c)

\* C1: with at least one URL line in urls.txt, whatever the network answers
\* (success, HTTP error, timeout, other exception), main never aborts, the
\* rows are those of the URL lines in order (the i-th row's url is the i-th
\* non-blank, non-comment line, stripped), each URL is fetched once, and the
\* report written at the end holds exactly one row per URL line.
C1_OneRowPerUrlLineInOrder ==
    LET I == UrlLineIdx(file.lines)
    IN (file.exists /\ I # {}) =>
          /\ pc \notin {"crashed", "fatal"}
          /\ Len(rows) <= Cardinality(I)
          /\ Len(pages) = Len(rows)
          /\ \A i \in 1..Len(rows) : rows[i].url = Trimmed(file.lines[Nth(I, i)])
          /\ report.written <=> pc = "done"
          /\ pc = "done" => report.rows = rows /\ Len(rows) = Cardinality(I)

ErrorStatuses ==
    {"ERROR_TIMEOUT", "ERROR_ConnectionError", "ERROR_ParserRejectedMarkup",
     "ERROR_RecursionError"}

\* Two URLs, the first timed out, the second was fetched, and the report
\* holds both rows in the order of the lines.
C1_Witness ==
    /\ pc = "done"
    /\ Len(report.rows) = 2
    /\ report.rows[1].status = "ERROR_TIMEOUT"
    /\ report.rows[2].status \notin ErrorStatuses
    /\ report.rows[1].url # report.rows[2].url

\* the response was fetched with a code below 400
Fetched(page) == page.kind = "response" /\ page.code < 400

MetaOf(page)   == find_meta_date(page.html.metas)
TextOf(page)   == find_date_near_label(page.html.text)
HeaderOf(page) == safe_parse_date(page.lm)

\* A strategy yields when check_url gets to run it and it returns a date.
\* The document exists unless the HTML library raised while building it;
\* the text exists unless the library raised while extracting it.
MetaYields(page) ==
    Fetched(page) /\ page.failAt # "soup" /\ MetaOf(page) # NoResult

\* find_meta_date ran and returned None
MetaFails(page) ==
    Fetched(page) /\ page.failAt # "soup" /\ MetaOf(page) = NoResult

TextYields(page) ==
    MetaFails(page) /\ page.failAt # "text" /\ TextOf(page) # NoResult

\* find_date_near_label ran and returned None
TextFails(page) ==
    MetaFails(page) /\ page.failAt # "text" /\ TextOf(page) = NoResult

HeaderYields(page) == TextFails(page) /\ HeaderOf(page) # None

HeaderFails(page) == TextFails(page) /\ HeaderOf(page) = None

EndedInException(page) ==
    \/ page.kind = "raise"
    \/ Fetched(page) /\ page.failAt = "soup"
    \/ MetaFails(page) /\ page.failAt = "text"

\* C4 as claimed: a URL fetched below 400 for which a strategy yields a date
\* has status "OK"; "HTTP_<code>" only for codes of 400 and above;
\* "OK_NO_DATE_FOUND" only for a successful fetch without a date;
\* "ERROR_TIMEOUT" / "ERROR_<kind>" only when an exception ended the
\* processing.
C4_StatusVocabulary ==
    \A i \in 1..Len(rows) :
        LET row == rows[i]
            page == pages[i]
        IN /\ (MetaYields(page) \/ TextYields(page) \/ HeaderYields(page))
                => row.status = "OK"
           /\ (page.kind = "response" /\ row.status = "HTTP_" \o ToString(page.code))
                => page.code >= 400
           /\ row.status = "OK_NO_DATE_FOUND" => HeaderFails(page)
           /\ row.status \in ErrorStatuses => EndedInException(page)

\* What check_url does report: "HTTP_<code>" for every response, below 400
\* too, unless no date was found or an exception ended the processing; "OK"
\* never.
StatusAsCoded ==
    \A i \in 1..Len(rows) :
        LET row == rows[i]
            page == pages[i]
        IN /\ row.status # "OK"
           /\ (MetaYields(page) \/ TextYields(page) \/ HeaderYields(page))
                => row.status = "HTTP_" \o ToString(page.code)
           /\ row.status = "OK_NO_DATE_FOUND" <=> HeaderFails(page)
           /\ row.status \in ErrorStatuses <=> EndedInException(page)

\* A URL answered with code 200 and a date in a meta tag has been reported.
C4_Reached == Len(rows) >= 1 /\ pages[1].code = 200 /\ MetaYields(pages[1])

EmptyBut(row, fields) ==
    /\ "title" \in fields \/ row.title = ""
    /\ "best_date_utc" \in fields \/ row.best_date_utc = EmptyStr
    /\ "found_where" \in fields \/ row.found_where = <<>>
    /\ "http_last_modified" \in fields \/ row.http_last_modified = EmptyStr
    /\ "content_hash" \in fields \/ row.content_hash = <<>>

\* C5: for a response code of 400 or above check_url returns at once with
\* status "HTTP_<code>": title, best_date_utc, found_where,
\* http_last_modified and content_hash are empty whatever the body and the
\* headers hold.
C5_HttpErrorShortCircuit ==
    \A i \in 1..Len(rows) :
        (pages[i].kind = "response" /\ pages[i].code >= 400) =>
            /\ rows[i].status = "HTTP_" \o ToString(pages[i].code)
            /\ EmptyBut(rows[i], {})
            /\ rows[i].url = urls[i]
            /\ rows[i].checked_at_utc = NowUtc

\* A response with code 400 whose body has a title, a meta date and a
\* labelled date and whose header has a date has been reported.
C5_Witness ==
    /\ Len(rows) >= 1
    /\ pages[1].kind = "response" /\ pages[1].code = 400
    /\ get_title(pages[1].html) # ""
    /\ MetaOf(pages[1]) # NoResult /\ TextOf(pages[1]) # NoResult
    /\ HeaderOf(pages[1]) # None

ExceptionClass(page) ==
    IF page.kind = "raise" THEN page.exc ELSE LibraryException(page.failAt)

ExceptionStatus(page) ==
    IF ExceptionClass(page) \in TimeoutClasses THEN "ERROR_TIMEOUT"
    ELSE "ERROR_" \o ExceptionClass(page)

\* C6 as claimed: every row whose processing ended in an exception, raised
\* during the GET or later (HTML parsing, title or text extraction), has the
\* ERROR status and title, best_date_utc, found_where, http_last_modified
\* and content_hash all empty.
C6_ExceptionRowsEmpty ==
    \A i \in 1..Len(rows) :
        EndedInException(pages[i]) =>
            /\ rows[i].status = ExceptionStatus(pages[i])
            /\ EmptyBut(rows[i], {})

\* C6 amended: every row whose processing ended in an exception has status
\* ERROR_TIMEOUT (a timeout) or ERROR_<kind> and empty best_date_utc and
\* found_where.  It is otherwise empty when the exception was raised by the
\* GET (as every timeout is).  An exception raised later leaves in the row
\* what was captured before it: content_hash and http_last_modified, and
\* the title once title extraction is done.
C6_ExceptionRowsKeepWhatWasCaptured ==
    \A i \in 1..Len(rows) :
        LET row == rows[i]
            page == pages[i]
        IN EndedInException(page) =>
            /\ row.status = ExceptionStatus(page)
            /\ row.url = urls[i] /\ row.checked_at_utc = NowUtc
            /\ EmptyBut(row, {"title", "http_last_modified", "content_hash"})
            /\ page.kind = "raise" => EmptyBut(row, {})
            /\ page.kind = "response" =>
                 /\ row.content_hash = hash_content(page.html)
                 /\ row.http_last_modified = OrEmpty(HeaderOf(page))
                 /\ row.title = IF page.failAt = "soup" THEN ""
                                ELSE get_title(page.html)

\* A timeout row, and a row for a page whose text extraction raised after
\* the hash, the header and the title were captured.
C6_Witness ==
    /\ Len(rows) = 2
    /\ pages[1].kind = "raise" /\ rows[1].status = "ERROR_TIMEOUT"
    /\ pages[2].kind = "response" /\ pages[2].failAt = "text"
    /\ rows[2].status = "ERROR_RecursionError"
    /\ rows[2].title # "" /\ rows[2].http_last_modified # EmptyStr
    /\ rows[2].content_hash # <<>>

\* C10: when urls.txt is missing or holds no URL line, main ends with a
\* fatal error before any GET, before the output directory is made and
\* without a report; and no GET is ever issued before the list was read and
\* found non-empty.
C10_FatalBeforeAnyEffect ==
    /\ (~file.exists \/ UrlLineIdx(file.lines) = {}) =>
          /\ pc \in {"exists", "read", "fatal"}
          /\ pages = <<>> /\ rows = <<>> /\ ~outDir /\ ~report.written
          /\ pc = "read" => file.exists
    /\ pc = "fatal" =>
          /\ ~file.exists \/ UrlLineIdx(file.lines) = {}
          /\ exitMsg # ""
    /\ (pages # <<>> \/ outDir \/ report.written) =>
          /\ file.exists
          /\ urls # <<>>
          /\ Len(urls) = Cardinality(UrlLineIdx(file.lines))
          /\ pc \in {"rows", "done"}
          /\ exitMsg = ""
    /\ pages # <<>> => outDir

\* urls.txt exists and holds only blank and comment lines, and main has
\* ended with the fatal error.
C10_Witness ==
    /\ pc = "fatal"
    /\ file.exists
    /\ Len(file.lines) = MaxLines
    /\ exitMsg = "urls.txt is empty."

(***************************************************************************)
(* SpecDate: safe_parse_date on a raw string, then on its own output.      *)
(***************************************************************************)
Years   == {2023, 2024}
Numbers == {1, 2, 12, 13, 29, 31}
Hours   == {0, 10}
Offsets == {0, 2, -5}

RawInputs ==
    {EmptyStr, BlankStr, JunkStr}
    \cup {[YmdStr(y, n, m, h, z, IF z THEN o ELSE 0) EXCEPT !.pad = p] :
            y \in Years, n \in Numbers, m \in Numbers, h \in Hours,
            z \in BOOLEAN, o \in Offsets, p \in BOOLEAN}
    \cup {DmyStr(n, m, y) : n \in Numbers, m \in Numbers, y \in Years}
    \cup {DMonYStr(n, m, y) : n \in Numbers, m \in 1..12, y \in Years}

InitDate ==
    /\ IdleMain /\ IdleMeta /\ IdleLabel
    /\ pcDate = "raw"
    /\ rawIn \in RawInputs
    /\ iso1 = None
    /\ iso2 = None

\* iso = safe_parse_date(raw)
Normalize ==
    /\ pcDate = "raw"
    /\ iso1' = safe_parse_date(rawIn)
    /\ pcDate' = "once"
    /\ UNCHANGED <<rawIn, iso2, mainVars, metaVars, labelVars>>

\* safe_parse_date(iso), for an iso that is a result
Renormalize ==
    /\ pcDate = "once"
    /\ iso1 # None
    /\ iso2' = safe_parse_date(iso1)
    /\ pcDate' = "twice"
    /\ UNCHANGED <<rawIn, iso1, mainVars, metaVars, labelVars>>

NextDate == Normalize \/ Renormalize

SpecDate == InitDate /\ [][NextDate]_vars

\* C9: safe_parse_date is idempotent on its own output: whenever
\* safe_parse_date(x) returned r, safe_parse_date(r) = r, dates whose day
\* and month are both at most 12 included.
C9_Idempotent == pcDate = "twice" => iso2 = iso1

\* The spec's examples of normalize: "" and "not a date" give no result,
\* "2024-01-15" gives "2024-01-15T00:00:00+00:00".
DateExamples ==
    /\ safe_parse_date(EmptyStr) = None
    /\ safe_parse_date(JunkStr) = None
    /\ safe_parse_date(YmdStr(2024, 1, 15, 0, FALSE, 0)) = YmdStr(2024, 1, 15, 0, TRUE, 0)

\* What the idempotence does hold for: results whose day is above 12 or
\* equal to the month.
DateIdempotentWhenUnambiguous ==
    (pcDate = "twice" /\ (iso1.c > 12 \/ iso1.c = iso1.b)) => iso2 = iso1

\* A result with day and month both at most 12 and different has been
\* normalized again.
C9_AmbiguousReached ==
    pcDate = "twice" /\ iso1.b <= 12 /\ iso1.c <= 12 /\ iso1.b # iso1.c


(***************************************************************************)
(* SpecMeta: find_meta_date on a document.                                 *)
(***************************************************************************)
TagNames ==
    { <<"property", "article:modified_time">>, <<"name", "dateModified">>,
      <<"itemprop", "dateModified">>, <<"name", "author">> }

TagContents == {None, BlankStr, JunkStr, DateA, DateB}

MetaTags == {MetaTag(n[1], n[2], c) : n \in TagNames, c \in TagContents}

InitMeta ==
    /\ IdleMain /\ IdleDate /\ IdleLabel
    /\ pcMeta = "doc"
    /\ soupDoc \in SeqsUpTo(MetaTags, MaxTags)
    /\ metaRes = NoResult

FindMeta ==
    /\ pcMeta = "doc"
    /\ metaRes' = find_meta_date(soupDoc)
    /\ pcMeta' = "done"
    /\ UNCHANGED <<soupDoc, mainVars, dateVars, labelVars>>

NextMeta == FindMeta

SpecMeta == InitMeta /\ [][NextMeta]_vars

\* the tag's content normalizes to a date
Parseable(tag) == Truthy(tag.content) /\ safe_parse_date(tag.content) # None

\* the positions of the tags of doc that match META_KEYS[i]
MatchingAt(doc, i) ==
    {j \in 1..Len(doc) : TagMatches(doc[j], META_KEYS[i][1], META_KEYS[i][2])}

\* the entries of META_KEYS whose first matching tag is parseable
KeysFirstTagParses(doc) ==
    {i \in 1..Len(META_KEYS) :
        MatchingAt(doc, i) # {} /\ Parseable(doc[Min(MatchingAt(doc, i))])}

\* C7 as claimed: whenever the document holds a tag that matches some
\* META_KEYS entry and has parseable content, find_meta_date returns a
\* result, also when an earlier tag of the same (attr, key) is unparseable.
C7_AnyParseableTagFound ==
    (pcMeta = "done" /\ \E i \in 1..Len(META_KEYS) :
                           \E j \in MatchingAt(soupDoc, i) : Parseable(soupDoc[j]))
    => metaRes # NoResult

\* C7 amended: per META_KEYS entry only the first matching tag in document
\* order is looked at; the result is that of the first entry, in META_KEYS
\* order, whose first matching tag has parseable content, with
\* "meta:<attr>=<key>" of that entry; an entry whose first matching tag is
\* missing, empty or unparseable is skipped; None iff no entry qualifies.
C7_FirstEntryWhoseFirstTagParses ==
    pcMeta = "done" =>
        LET K == KeysFirstTagParses(soupDoc)
        IN IF K = {} THEN metaRes = NoResult
           ELSE LET i   == Min(K)
                    tag == soupDoc[Min(MatchingAt(soupDoc, i))]
                IN metaRes = <<safe_parse_date(tag.content),
                               <<"meta:", META_KEYS[i][1], "=", META_KEYS[i][2]>> >>

\* find_meta_date has skipped an entry whose first tag is unparseable
\* although a later tag of the same entry is parseable, and returned the
\* date of a later entry.
C7_Witness ==
    /\ pcMeta = "done"
    /\ metaRes # NoResult
    /\ KeysFirstTagParses(soupDoc) # {}
    /\ \E i \in 1..Len(META_KEYS) :
          /\ i < Min(KeysFirstTagParses(soupDoc))
          /\ \E j \in MatchingAt(soupDoc, i) : Parseable(soupDoc[j])


(***************************************************************************)
(* SpecLabel: find_date_near_label on a text.                              *)
(***************************************************************************)
Vocabulary == {"Last", "updated", "on", ":", DateWord, LongWord, WsRun}

InitLabel ==
    /\ IdleMain /\ IdleDate /\ IdleMeta
    /\ pcLabel = "text"
    /\ textIn \in SeqsUpTo(Vocabulary, MaxWords)
    /\ labelRes = NoResult

FindLabel ==
    /\ pcLabel = "text"
    /\ labelRes' = find_date_near_label(textIn)
    /\ pcLabel' = "done"
    /\ UNCHANGED <<textIn, mainVars, dateVars, metaVars>>

NextLabel == FindLabel

SpecLabel == InitLabel /\ [][NextLabel]_vars

\* the word positions of t at which LABEL_PATTERNS[p] occurs
Occurrences(t, p) == {i \in 1..Len(t) : LabelAt(t, LABEL_PATTERNS[p], i)}

\* the first word after the label at i that is no separator
AfterSeparators(t, i) ==
    Min({j \in (i + 2)..(Len(t) + 1) : j = Len(t) + 1 \/ t[j] \notin {":", "-", EnDash}})

RECURSIVE CharsBetween(_, _, _)
\* the characters from the start of word s to the start of word j
CharsBetween(t, s, j) ==
    IF j <= s THEN 0 ELSE Width(t[j - 1]) + 1 + CharsBetween(t, s, j - 1)

\* the 80 characters that follow the label at i and its separators: the
\* words that start within them, each with the part of it that is inside
First80After(t, i) ==
    LET s      == AfterSeparators(t, i)
        inside == {j \in s..Len(t) : CharsBetween(t, s, j) < 80}
    IN [k \in 1..Cardinality(inside) |->
           LET j    == s + k - 1
               room == 80 - CharsBetween(t, s, j)
           IN [word |-> t[j],
               kept |-> IF Width(t[j]) <= room THEN Width(t[j]) ELSE room]]

\* the date in the window after the occurrence of a label at i, or None
DateAfter(t, i) == safe_parse_date(WindowText(First80After(t, i)))

\* the patterns whose first occurrence is followed by a window that parses
PatternsFirstWindowParses(t) ==
    {p \in 1..Len(LABEL_PATTERNS) :
        Occurrences(t, p) # {} /\ DateAfter(t, Min(Occurrences(t, p))) # None}

\* C8: the patterns are tried in list order and for each only the first
\* occurrence of the label, with the at most 80 characters after it and its
\* separators, is examined: the result is the date of the first pattern in
\* list order whose first-occurrence window parses, with
\* "text_label:<matched label text>"; a window that does not parse sends the
\* search to the next pattern, never to a later occurrence; None iff no
\* pattern's first-occurrence window parses.
C8_FirstPatternFirstOccurrence ==
    pcLabel = "done" =>
        LET t == CollapseWs(textIn)
            P == PatternsFirstWindowParses(t)
        IN IF P = {} THEN labelRes = NoResult
           ELSE LET i == Min(Occurrences(t, Min(P)))
                IN labelRes = <<DateAfter(t, i), <<"text_label:", t[i], t[i + 1]>> >>

\* A label occurs twice, the window after its first occurrence does not
\* parse, the window after the second does, and no date is returned.
C8_Witness ==
    /\ pcLabel = "done"
    /\ labelRes = NoResult
    /\ LET t == CollapseWs(textIn)
       IN \E p \in 1..Len(LABEL_PATTERNS) : \E i \in Occurrences(t, p) :
             /\ i > Min(Occurrences(t, p))
             /\ DateAfter(t, Min(Occurrences(t, p))) = None
             /\ DateAfter(t, i) # None

\* A date cut by the end of the window has been returned: the 80th
\* character fell inside the date.
C8_CutWindowReached ==
    /\ pcLabel = "done"
    /\ labelRes # NoResult
    /\ labelRes[1] # safe_parse_date(CutDate(Width(DateWord)))

=============================================================================
